---------------------------- MODULE Spec2Model ----------------------------
(* Model of src/app/app.py: the text cleaner, the template generators,    *)
(* the Word / PDF / HTML exporters and the Streamlit submit handler.      *)
(*                                                                        *)
(* A text is a sequence of one-character strings; the fixed pieces of a   *)
(* template are kept as single elements that hold no newline, so that     *)
(* splitting on "\n" sees exactly the line breaks of the source.          *)
EXTENDS Integers, Sequences, FiniteSets, TLC

VARIABLES
    option,           \* st.selectbox value                     (app.py:281)
    resume_text,      \* left text area                         (app.py:295)
    job_description,  \* right text area                        (app.py:302)
    ui,               \* elements the last script run put on the page
    calls,            \* functions the last script run called, in order
    role,             \* label handed to a generator
    text,             \* input of the function under study
    height,           \* page height used by the PDF canvas
    out               \* results of the function under study, oldest first

vars == <<option, resume_text, job_description, ui, calls, role, text, height, out>>

----------------------------------------------------------------------------
(* Bounds *)

MaxLen == 3        \* length of the texts given to clean_text
MaxRawLen == 2     \* length of the resume text typed in the app
MaxJobLen == 1     \* length of the job description typed in the app
MaxSynthJobLen == 2  \* length of the job descriptions given to customize_for_job
MaxWordLen == 5    \* length of the texts given to the Word exporter
MaxPdfLines == 60  \* number of lines of the texts given to the PDF exporter

----------------------------------------------------------------------------
(* Characters *)

NL == "\n"
SP == " "

Whitespace == {" ", "\n", "\t"}
Digits == {"7"}
UpperCase == {"B"}
LowerCase == {"a", "b", "j"}

\* what clean_text is fed in the function-level specification
Chars == {"a", "B", "7", "!", " ", "\n"}
\* what the user types as resume text
RawChars == {"B", "<", " "}
\* what the user types as job description
JobChars == {" ", "j"}
\* what customize_for_job is fed as job description
SynthJobChars == {" ", "\n", "j"}
\* labels the classifier may answer
Labels == {"Data Science", "HR"}

Strings(S, n) == UNION {[1..k -> S] : k \in 0..n}

\* str.lower() on one character
Lower(c) == IF c = "B" THEN "b" ELSE c

\* str.lower()
LowerAll(s) == [i \in 1..Len(s) |-> Lower(s[i])]

\* re.sub(r"\d+", "", s): every character of the class goes
RemoveAll(s, class) == SelectSeq(s, LAMBDA c : c \notin class)

\* re.sub(r"[^a-zA-Z\s]", "", s): every character outside the class goes
KeepOnly(s, class) == SelectSeq(s, LAMBDA c : c \in class)

\* re.sub(r"\s+", " ", s): every maximal run of whitespace becomes one space
RECURSIVE CollapseSpaces(_)
CollapseSpaces(s) ==
    IF s = <<>> THEN <<>>
    ELSE IF s[1] \in Whitespace
         THEN IF Len(s) > 1 /\ s[2] \in Whitespace
              THEN CollapseSpaces(Tail(s))
              ELSE <<SP>> \o CollapseSpaces(Tail(s))
         ELSE <<s[1]>> \o CollapseSpaces(Tail(s))

\* the class [a-zA-Z\s]
LettersAndSpace == LowerCase \cup UpperCase \cup Whitespace

\* clean_text without the lower() call
clean_text_noLower(t) ==
    LET t2 == RemoveAll(t, Digits)
        t3 == KeepOnly(t2, LettersAndSpace)
    IN  CollapseSpaces(t3)

\* clean_text with the whitespace collapsed before the removals
clean_text_collapseFirst(t) ==
    LET t1 == CollapseSpaces(LowerAll(t))
        t2 == RemoveAll(t1, Digits)
    IN  KeepOnly(t2, LettersAndSpace)

clean_text(t) ==
    LET t1 == LowerAll(t)
        t2 == RemoveAll(t1, Digits)
        t3 == KeepOnly(t2, LettersAndSpace)
    IN  CollapseSpaces(t3)

\* str.strip(): leading and trailing whitespace removed
RECURSIVE LStrip(_)
LStrip(s) == IF s # <<>> /\ s[1] \in Whitespace THEN LStrip(Tail(s)) ELSE s

RECURSIVE RStrip(_)
RStrip(s) ==
    IF s # <<>> /\ s[Len(s)] \in Whitespace THEN RStrip(SubSeq(s, 1, Len(s) - 1)) ELSE s

strip(s) == RStrip(LStrip(s))

----------------------------------------------------------------------------
(* clean_text applied, and applied again to its own result *)

Idle ==
    /\ option = "Predict Job Category"
    /\ resume_text = <<>>
    /\ job_description = <<>>
    /\ ui = <<>>
    /\ calls = <<>>

InitClean ==
    /\ Idle
    /\ role = "HR"
    /\ height = 0
    /\ text \in Strings(Chars, MaxLen)
    /\ out = <<>>

Clean ==
    /\ Len(out) < 2
    /\ out' = Append(out, clean_text(IF out = <<>> THEN text ELSE out[Len(out)]))
    /\ UNCHANGED <<option, resume_text, job_description, ui, calls, role, text, height>>

SpecClean == InitClean /\ [][Clean]_vars

\* C2: every character of a clean_text result is a lowercase letter or a
\* space, and no two spaces are adjacent.
CleanOutputShape ==
    \A k \in 1..Len(out) :
        /\ \A i \in 1..Len(out[k]) : out[k][i] \in LowerCase \cup {SP}
        /\ \A i \in 1..(Len(out[k]) - 1) : ~(out[k][i] = SP /\ out[k][i + 1] = SP)

\* removing a digit left two whitespace runs next to each other
CleanOutputShapeWitness ==
    /\ text = <<" ", "7", "\n">>
    /\ Len(out) >= 1
    /\ out[1] = <<SP>>

\* C3: cleaning a cleaned text changes nothing.
CleanIdempotent == Len(out) = 2 => out[2] = out[1]

CleanIdempotentWitness ==
    /\ text = <<"B", "\n", " ">>
    /\ Len(out) = 2
    /\ out[1] = <<"b", SP>>

----------------------------------------------------------------------------
(* Content generators.  The typographic apostrophe of app.py:128 and the  *)
(* dash of app.py:159 and app.py:260 are written in ASCII here.           *)

generate_resume(r) ==
    << "PROFESSIONAL RESUME", NL, NL,
       "Target Role: ", r, NL, NL,
       "PROFESSIONAL SUMMARY", NL,
       "Motivated professional seeking a role in this domain.", NL,
       "Strong foundation in technical skills and problem solving.", NL, NL,
       "CORE SKILLS", NL,
       "- Python, Machine Learning, Streamlit, Data Analysis", NL,
       "- Communication, Teamwork, Problem Solving", NL,
       "- Tools: Git, Jupyter Notebook, VS Code", NL, NL,
       "PROJECT EXPERIENCE", NL,
       "AI Resume & Portfolio Builder", NL,
       "- Built a ML model to classify resumes.", NL,
       "- Deployed an interactive app using Streamlit.", NL, NL,
       "EDUCATION", NL,
       "Bachelor's Degree in a relevant discipline", NL, NL,
       "CERTIFICATIONS", NL,
       "- Python for Data Science", NL,
       "- Machine Learning Fundamentals", NL, NL,
       "ADDITIONAL INFORMATION", NL,
       "Strong interest in continuous learning and AI applications.", NL >>

generate_cover_letter(r) ==
    << "Dear Hiring Manager,", NL, NL,
       "I am applying for the ", r, " position at your organization.", NL,
       "I have strong technical skills and hands-on project experience.", NL, NL,
       "I recently built an AI Resume & Portfolio Builder using", NL,
       "machine learning and Streamlit to automate document creation.", NL, NL,
       "I am motivated, adaptable, and eager to contribute effectively.", NL, NL,
       "Thank you for your time and consideration.", NL, NL,
       "Sincerely,", NL,
       "Applicant", NL >>

generate_portfolio(r) ==
    << "PORTFOLIO PROFILE - ", r, NL, NL,
       "ABOUT ME", NL,
       "Aspiring professional with strong interest in AI and software.", NL, NL,
       "TECHNICAL SKILLS", NL,
       "- Python, SQL", NL,
       "- Machine Learning, NLP", NL,
       "- Streamlit", NL,
       "- Git, Jupyter, VS Code", NL, NL,
       "PROJECTS", NL,
       "AI Resume & Portfolio Builder", NL,
       "- Built a resume classification model.", NL,
       "- Integrated into a Streamlit web app.", NL, NL,
       "CAREER OBJECTIVE", NL,
       "To apply technical skills, grow professionally, and", NL,
       "contribute to innovative projects.", NL, NL,
       "CONTACT", NL,
       "Email: your_email@example.com", NL,
       "GitHub: https://github.com/yourprofile", NL,
       "LinkedIn: https://linkedin.com/in/yourprofile", NL >>

\* the customized template, whatever the job description is
CustomizedTemplate(r, resume_input, job_desc) ==
    << "PROFESSIONAL RESUME (CUSTOMIZED)", NL, NL,
       "Target Role: ", r, NL, NL,
       "CUSTOMIZED SUMMARY", NL,
       "This resume has been tailored to align with the job description.", NL, NL,
       "JOB DESCRIPTION KEY REQUIREMENTS", NL >>
    \o job_desc \o
    << NL, NL,
       "CANDIDATE PROFILE", NL >>
    \o resume_input \o
    << NL, NL,
       "KEY ALIGNMENT", NL,
       "- Skills aligned with job requirements.", NL,
       "- Keywords optimized for ATS systems.", NL,
       "- Content adjusted to match role expectations.", NL >>

\* customize_for_job testing job_desc == "" without the strip()
customize_for_job_noStrip(r, resume_input, job_desc) ==
    IF job_desc = <<>>
    THEN generate_resume(r)
    ELSE CustomizedTemplate(r, resume_input, job_desc)

customize_for_job(r, resume_input, job_desc) ==
    IF strip(job_desc) = <<>>
    THEN generate_resume(r)
    ELSE CustomizedTemplate(r, resume_input, job_desc)

----------------------------------------------------------------------------
(* customize_for_job applied to a label, a candidate text and a job       *)
(* description                                                            *)

InitSynth ==
    /\ option = "Generate Resume"
    /\ resume_text \in Strings(RawChars, MaxRawLen)
    /\ job_description \in Strings(SynthJobChars, MaxSynthJobLen)
    /\ role \in Labels
    /\ ui = <<>>
    /\ calls = <<>>
    /\ text = <<>>
    /\ height = 0
    /\ out = <<>>

Customize ==
    /\ out = <<>>
    /\ out' = <<customize_for_job(role, resume_text, job_description)>>
    /\ UNCHANGED <<option, resume_text, job_description, ui, calls, role, text, height>>

SpecSynth == InitSynth /\ [][Customize]_vars

AllWhitespace(s) == \A i \in 1..Len(s) : s[i] \in Whitespace

\* C1: when the job description is empty or holds only whitespace,
\* customize_for_job returns the text of generate_resume for the same label,
\* with nothing of the customized template in it.
BlankJobGivesPlainResume ==
    (out # <<>> /\ AllWhitespace(job_description)) =>
        /\ out[1] = generate_resume(role)
        /\ \A i \in 1..Len(out[1]) :
              out[1][i] \notin {"PROFESSIONAL RESUME (CUSTOMIZED)", "CANDIDATE PROFILE",
                                "JOB DESCRIPTION KEY REQUIREMENTS"}

\* a whitespace-only job description and a non-empty candidate text went in
BlankJobGivesPlainResumeWitness ==
    /\ out # <<>>
    /\ job_description = <<" ", "\n">>
    /\ resume_text = <<"B", "<">>
    /\ out[1][1] = "PROFESSIONAL RESUME"

----------------------------------------------------------------------------
(* File export *)

\* index of the first "\n" of s, 0 when there is none
RECURSIVE FirstNL(_, _)
FirstNL(s, i) ==
    IF i > Len(s) THEN 0
    ELSE IF s[i] = NL THEN i
    ELSE FirstNL(s, i + 1)

\* str.splitlines(): as split("\n"), but no empty last line after a final "\n"
RECURSIVE SplitLines_splitlines(_)
SplitLines_splitlines(s) ==
    LET i == FirstNL(s, 1)
    IN  IF s = <<>> THEN <<>>
        ELSE IF i = 0 THEN <<s>>
        ELSE <<SubSeq(s, 1, i - 1)>> \o SplitLines_splitlines(SubSeq(s, i + 1, Len(s)))

\* text.split("\n")
RECURSIVE SplitLines(_)
SplitLines(s) ==
    LET i == FirstNL(s, 1)
    IN  IF i = 0 THEN <<s>>
        ELSE <<SubSeq(s, 1, i - 1)>> \o SplitLines(SubSeq(s, i + 1, Len(s)))

\* the loop of generate_word_file: one add_paragraph per line, on a document
\* that starts without paragraphs
RECURSIVE AddParagraphs(_, _, _)
AddParagraphs(doc, lines, i) ==
    IF i > Len(lines) THEN doc
    ELSE AddParagraphs([paragraphs |-> Append(doc.paragraphs, lines[i])], lines, i + 1)

generate_word_file(t) == AddParagraphs([paragraphs |-> <<>>], SplitLines(t), 1)

LeftMargin == 40
TopMargin == 40
BottomMargin == 40
LineHeight == 14
\* reportlab's A4 is 841.89 points high; the fraction changes no comparison
\* of the loop, whose other operands are integers
A4Height == 841

\* the loop of generate_pdf_file: pages holds the pages closed by showPage(),
\* page the strings drawn since, y the cursor; a page is closed when the
\* cursor has gone below `bottom`
RECURSIVE PdfLoop(_, _, _, _, _, _, _)
PdfLoop(lines, i, y, page, pages, h, bottom) ==
    IF i > Len(lines)
    THEN [pages |-> pages, page |-> page, y_position |-> y]
    ELSE LET drawn == Append(page, [x |-> LeftMargin, y |-> y, line |-> lines[i]])
             y2 == y - LineHeight
         IN  IF y2 < bottom
             THEN PdfLoop(lines, i + 1, h - TopMargin, <<>>, Append(pages, drawn), h, bottom)
             ELSE PdfLoop(lines, i + 1, y2, drawn, pages, h, bottom)

\* generate_pdf_file testing y_position <= 40
generate_pdf_file_lessOrEqual(t, h) ==
    PdfLoop(SplitLines(t), 1, h - TopMargin, <<>>, <<>>, h, BottomMargin + 1)

\* h is the page height the canvas was made with
generate_pdf_file(t, h) ==
    PdfLoop(SplitLines(t), 1, h - TopMargin, <<>>, <<>>, h, BottomMargin)

----------------------------------------------------------------------------
(* generate_word_file applied to a text *)

WordChars == {"x", " ", NL}

InitWord ==
    /\ Idle
    /\ role = "HR"
    /\ height = 0
    /\ text \in Strings(WordChars, MaxWordLen)
    /\ out = <<>>

ExportWord ==
    /\ out = <<>>
    /\ out' = <<generate_word_file(text)>>
    /\ UNCHANGED <<option, resume_text, job_description, ui, calls, role, text, height>>

SpecWord == InitWord /\ [][ExportWord]_vars

\* the number of lines of s: one more than its newline characters
NumLines(s) == Cardinality({i \in 1..Len(s) : s[i] = NL}) + 1

\* the lines put back together with "\n" between them
RECURSIVE JoinLines(_)
JoinLines(ls) ==
    IF ls = <<>> THEN <<>>
    ELSE IF Len(ls) = 1 THEN ls[1]
    ELSE ls[1] \o <<NL>> \o JoinLines(Tail(ls))

\* C5: the Word document holds one paragraph per line of the text, in the
\* order of the text, an empty line giving an empty paragraph.
WordOneParagraphPerLine ==
    out # <<>> =>
        LET ps == out[1].paragraphs
        IN  /\ Len(ps) = NumLines(text)
            /\ \A k \in 1..Len(ps) : \A i \in 1..Len(ps[k]) : ps[k][i] # NL
            /\ JoinLines(ps) = text

\* a text with an empty line in the middle and one at the end
WordOneParagraphPerLineWitness ==
    /\ out # <<>>
    /\ text = <<"x", NL, NL, " ", NL>>
    /\ out[1].paragraphs = << <<"x">>, <<>>, <<" ">>, <<>> >>

----------------------------------------------------------------------------
(* generate_pdf_file applied to a text, on a canvas of a given height *)

Heights == {780, 800, A4Height}

\* n lines, each holding c
RECURSIVE Repeat(_, _)
Repeat(n, c) == IF n = 1 THEN c ELSE c \o <<NL>> \o Repeat(n - 1, c)

InitPdf ==
    /\ Idle
    /\ role = "HR"
    /\ height \in Heights
    /\ text \in {Repeat(n, c) : n \in 1..MaxPdfLines, c \in {<<>>, <<"x">>}}
    /\ out = <<>>

ExportPdf ==
    /\ out = <<>>
    /\ out' = <<generate_pdf_file(text, height)>>
    /\ UNCHANGED <<option, resume_text, job_description, ui, calls, role, text, height>>

SpecPdf == InitPdf /\ [][ExportPdf]_vars

\* where the first string after the first page break is, or would be, drawn
CursorAfterFirstBreak(r) ==
    IF Len(r.pages) >= 2 THEN r.pages[2][1].y
    ELSE IF r.page # <<>> THEN r.page[1].y
    ELSE r.y_position

\* C4 as claimed: a text of more than floor((H - 80) / 14) lines gets its
\* first page break after floor((H - 80) / 14) lines, the cursor going back
\* to H - 40.
PdfBreakAfterFloorLines ==
    (out # <<>> /\ NumLines(text) > (height - 80) \div 14) =>
        /\ Len(out[1].pages) >= 1
        /\ Len(out[1].pages[1]) = (height - 80) \div 14
        /\ CursorAfterFirstBreak(out[1]) = height - 40

\* C4 amended: the first page break comes after floor((H - 80) / 14) + 1
\* lines (52 for H = 800), in every text of at least that many lines and in
\* no shorter one, and the cursor goes back to H - 40.
PdfBreakAfterFloorPlusOneLines ==
    out # <<>> =>
        LET full == (height - 80) \div 14 + 1
        IN  /\ (Len(out[1].pages) >= 1) <=> (NumLines(text) >= full)
            /\ (Len(out[1].pages) >= 1) =>
                  /\ Len(out[1].pages[1]) = full
                  /\ CursorAfterFirstBreak(out[1]) = height - 40

\* 53 lines on a page 800 high: 52 on the first page, the 53rd at the top
\* of the second
PdfBreakWitness ==
    /\ out # <<>>
    /\ height = 800
    /\ NumLines(text) = 53
    /\ Len(out[1].pages) = 1
    /\ Len(out[1].pages[1]) = 52
    /\ out[1].page = <<[x |-> 40, y |-> 760, line |-> <<"x">>]>>

----------------------------------------------------------------------------
(* Portfolio website *)

\* html.escape() on one character
Escape(c) == IF c = "<" THEN "&lt;" ELSE c

WebsitePage(r, body) ==
    << "<!DOCTYPE html>", NL,
       "<html lang='en'>", NL,
       "<head>", NL,
       "  <meta charset='UTF-8'>", NL,
       "  <meta name='viewport' content='width=device-width, initial-scale=1.0'>", NL,
       "  <title>Portfolio - ", r, "</title>", NL,
       "</head>", NL,
       "<body>", NL, NL,
       "<h1>Portfolio - ", r, "</h1>", NL, NL,
       "<pre>", NL >>
    \o body \o
    << NL,
       "</pre>", NL, NL,
       "</body>", NL,
       "</html>", NL >>

\* generate_portfolio_website escaping the text it embeds
generate_portfolio_website_escaped(r, resume_input) ==
    WebsitePage(r, [i \in 1..Len(resume_input) |-> Escape(resume_input[i])])

generate_portfolio_website(r, resume_input) == WebsitePage(r, resume_input)

----------------------------------------------------------------------------
(* The Streamlit script.  Every interaction runs it from the top; only    *)
(* the run started by the Submit button enters the handler of app.py:309. *)

Options ==
    {"Predict Job Category", "Generate Resume", "Generate Cover Letter", "Generate Portfolio"}

\* the exporters that may raise
Renderers == {"word", "pdf"}

\* tfidf.transform([cleaned_input]): the fitted vectorizer is not part of the
\* source; its result is kept as the texts it was given
tfidf_transform(texts) == [tfidf |-> texts]

Call(fn, args) == [fn |-> fn, args |-> args]

Element(kind, name, data, mime) == [kind |-> kind, name |-> name, data |-> data, mime |-> mime]

Warning == Element("warning", "Please enter resume text.", <<>>, "")
ResultBox(r) == Element("markdown", "Predicted Job Category", <<r>>, "")
Info == Element("info", "Job category predicted successfully.", <<>>, "")
TextArea(label, value) == Element("text_area", label, value, "")
DownloadButton(file_name, data, mime) == Element("download_button", file_name, data, mime)
Exception(renderer) == Element("exception", renderer, <<>>, "")

\* one statement of a branch: the calls it makes, the exporter among them
\* ("" when there is none) and the element it puts on the page
Step(cs, renderer, el) == [calls |-> cs, renderer |-> renderer, el |-> el]

\* the test of app.py:310 without the strip()
InputMissing_noStrip(rt) == rt = <<>>

InputMissing(rt) == strip(rt) = <<>>

\* app.py:313-315 with the vectorizer given the text as typed
ClassifyCalls_rawText(rt) ==
    << Call("clean_text", <<rt>>),
       Call("tfidf.transform", << <<rt>> >>),
       Call("model.predict", <<tfidf_transform(<<rt>>)>>) >>

ClassifyCalls(rt) ==
    LET cleaned_input == clean_text(rt)
        vectorized_input == tfidf_transform(<<cleaned_input>>)
    IN  << Call("clean_text", <<rt>>),
           Call("tfidf.transform", << <<cleaned_input>> >>),
           Call("model.predict", <<vectorized_input>>) >>

PredictSteps == << Step(<<>>, "", Info) >>

WordStep(t, file_name) ==
    Step(<<Call("generate_word_file", <<t>>)>>, "word",
         DownloadButton(file_name, generate_word_file(t), ""))

PdfStep(t, file_name) ==
    Step(<<Call("generate_pdf_file", <<t>>)>>, "pdf",
         DownloadButton(file_name, generate_pdf_file(t, A4Height), ""))

ResumeSteps(r, rt, jd) ==
    LET resume_output == customize_for_job(r, rt, jd)
    IN  << Step(<<Call("customize_for_job", <<r, rt, jd>>)>>, "",
                TextArea("Generated Resume", resume_output)),
           WordStep(resume_output, "resume.docx"),
           PdfStep(resume_output, "resume.pdf") >>

CoverLetterSteps(r) ==
    LET cover_output == generate_cover_letter(r)
    IN  << Step(<<Call("generate_cover_letter", <<r>>)>>, "",
                TextArea("Generated Cover Letter", cover_output)),
           WordStep(cover_output, "cover_letter.docx"),
           PdfStep(cover_output, "cover_letter.pdf") >>

\* the portfolio branch without its website
PortfolioSteps_noWebsite(r, rt) ==
    LET portfolio_output == generate_portfolio(r)
    IN  << Step(<<Call("generate_portfolio", <<r>>)>>, "",
                TextArea("Generated Portfolio", portfolio_output)),
           WordStep(portfolio_output, "portfolio.docx"),
           PdfStep(portfolio_output, "portfolio.pdf") >>

PortfolioSteps(r, rt) ==
    LET portfolio_output == generate_portfolio(r)
        website_html == generate_portfolio_website(r, rt)
    IN  << Step(<<Call("generate_portfolio", <<r>>)>>, "",
                TextArea("Generated Portfolio", portfolio_output)),
           WordStep(portfolio_output, "portfolio.docx"),
           PdfStep(portfolio_output, "portfolio.pdf"),
           Step(<<Call("generate_portfolio_website", <<r, rt>>)>>, "",
                DownloadButton("portfolio.html", website_html, "text/html")) >>

\* the if / elif chain of app.py:326-375
BranchSteps(opt, r, rt, jd) ==
    CASE opt = "Predict Job Category" -> PredictSteps
      [] opt = "Generate Resume" -> ResumeSteps(r, rt, jd)
      [] opt = "Generate Cover Letter" -> CoverLetterSteps(r)
      [] opt = "Generate Portfolio" -> PortfolioSteps(r, rt)

\* the statements run in order; the script has no try, so an exporter that
\* raises ends the run: the page shows the exception and nothing after it
RECURSIVE RunSteps(_, _, _, _)
RunSteps(steps, i, failing, acc) ==
    IF i > Len(steps) THEN acc
    ELSE IF steps[i].renderer \in failing
         THEN [ui |-> Append(acc.ui, Exception(steps[i].renderer)),
               calls |-> acc.calls \o steps[i].calls]
         ELSE RunSteps(steps, i + 1, failing,
                       [ui |-> Append(acc.ui, steps[i].el),
                        calls |-> acc.calls \o steps[i].calls])

\* the body of `if st.button("Submit"):`, predicted being prediction[0] and
\* failing the exporters that raise in this run
SubmitHandler(opt, rt, jd, predicted, failing) ==
    IF InputMissing(rt)
    THEN [ui |-> <<Warning>>, calls |-> <<>>]
    ELSE RunSteps(BranchSteps(opt, predicted, rt, jd), 1, failing,
                  [ui |-> <<ResultBox(predicted)>>, calls |-> ClassifyCalls(rt)])

Init ==
    /\ Idle
    /\ role = ""
    /\ text = <<>>
    /\ height = A4Height
    /\ out = <<>>

\* a run without the button pressed draws the widgets only
Rerun ==
    /\ ui' = <<>>
    /\ calls' = <<>>
    /\ UNCHANGED <<role, text, height, out>>

SelectOption ==
    /\ \E o \in Options \ {option} : option' = o
    /\ UNCHANGED <<resume_text, job_description>>
    /\ Rerun

EditResume ==
    /\ \E t \in Strings(RawChars, MaxRawLen) \ {resume_text} : resume_text' = t
    /\ UNCHANGED <<option, job_description>>
    /\ Rerun

EditJob ==
    /\ \E j \in Strings(JobChars, MaxJobLen) \ {job_description} : job_description' = j
    /\ UNCHANGED <<option, resume_text>>
    /\ Rerun

Submit ==
    /\ \E predicted \in Labels, failing \in SUBSET Renderers :
          LET run == SubmitHandler(option, resume_text, job_description, predicted, failing)
          IN  /\ ui' = run.ui
              /\ calls' = run.calls
              /\ role' = IF InputMissing(resume_text) THEN role ELSE predicted
    /\ UNCHANGED <<option, resume_text, job_description, text, height, out>>

Next == SelectOption \/ EditResume \/ EditJob \/ Submit

Spec == Init /\ [][Next]_vars

----------------------------------------------------------------------------
(* Properties of a submission *)

\* the page shows the result of a submission of the current inputs
Submitted == ui # <<>>

\* file names of the download buttons on the page, in page order
Artifacts == 
    LET buttons == SelectSeq(ui, LAMBDA e : e.kind = "download_button")
    IN  [i \in 1..Len(buttons) |-> buttons[i].name]

Called(fn) == {i \in 1..Len(calls) : calls[i].fn = fn}

Raised == \E i \in 1..Len(ui) : ui[i].kind = "exception"

IsPrefix(s, t) == Len(s) <= Len(t) /\ SubSeq(t, 1, Len(s)) = s

PortfolioFiles == <<"portfolio.docx", "portfolio.pdf", "portfolio.html">>

\* C6 as claimed: a portfolio submission with a non-blank resume text gives
\* exactly 4 artifacts, portfolio.html among them.
PortfolioGivesFourArtifacts ==
    (Submitted /\ option = "Generate Portfolio" /\ ~AllWhitespace(resume_text)) =>
        /\ Len(Artifacts) = 4
        /\ \E i \in 1..Len(Artifacts) : Artifacts[i] = "portfolio.html"

\* C6 amended: a portfolio submission with a non-blank resume text gives at
\* most 3 artifacts, a prefix of portfolio.docx, portfolio.pdf,
\* portfolio.html, and all 3 of them when no exporter raises.
PortfolioGivesThreeArtifacts ==
    (Submitted /\ option = "Generate Portfolio" /\ ~AllWhitespace(resume_text)) =>
        /\ IsPrefix(Artifacts, PortfolioFiles)
        /\ ~Raised => Artifacts = PortfolioFiles

PortfolioGivesThreeArtifactsWitness ==
    /\ option = "Generate Portfolio"
    /\ resume_text = <<"B", " ">>
    /\ ~Raised
    /\ Len(Artifacts) = 3
    /\ Artifacts[3] = "portfolio.html"

\* C7: a submission whose resume text is blank shows the warning and nothing
\* else, and calls neither clean_text, the vectorizer, the classifier, a
\* generator nor an exporter.
BlankInputStopsAtWarning ==
    (Submitted /\ AllWhitespace(resume_text)) =>
        /\ calls = <<>>
        /\ ui = <<Warning>>

\* a whitespace-only resume text was submitted for a portfolio, with a job
\* description
BlankInputStopsAtWarningWitness ==
    /\ option = "Generate Portfolio"
    /\ resume_text = <<" ", " ">>
    /\ job_description = <<"j">>
    /\ ui = <<Warning>>

ExportersOf(opt) ==
    CASE opt = "Generate Portfolio" ->
             {"generate_word_file", "generate_pdf_file", "generate_portfolio_website"}
      [] opt \in {"Generate Resume", "Generate Cover Letter"} ->
             {"generate_word_file", "generate_pdf_file"}
      [] OTHER -> {}

\* C8 as claimed: whichever exporter raises, every exporter of the selected
\* document kind is still called, those after the failing one included.
EveryExporterAttempted ==
    (Submitted /\ ~AllWhitespace(resume_text)) =>
        \A fn \in ExportersOf(option) : Called(fn) # {}

\* C9: the portfolio.html artifact holds the predicted label between
\* <title>Portfolio -  and </title>, and the resume text as typed, character
\* for character, on the lines between <pre> and </pre>.
WebsiteEmbedsRawText ==
    \A k \in 1..Len(ui) :
        (ui[k].kind = "download_button" /\ ui[k].name = "portfolio.html") =>
            LET html == ui[k].data
                n == Len(resume_text)
            IN  /\ ui[k].mime = "text/html"
                /\ \E i \in 1..(Len(html) - 2) :
                      /\ html[i] = "  <title>Portfolio - "
                      /\ html[i + 1] = role
                      /\ html[i + 2] = "</title>"
                /\ \E i \in 1..(Len(html) - n - 3) :
                      /\ html[i] = "<pre>"
                      /\ html[i + 1] = NL
                      /\ SubSeq(html, i + 2, i + n + 1) = resume_text
                      /\ html[i + n + 2] = NL
                      /\ html[i + n + 3] = "</pre>"

\* a resume text with an uppercase letter and a "<" reached the website
WebsiteEmbedsRawTextWitness ==
    /\ option = "Generate Portfolio"
    /\ resume_text = <<"B", "<">>
    /\ role = "Data Science"
    /\ Len(Artifacts) = 3
    /\ Artifacts[3] = "portfolio.html"

Synthesis ==
    {"customize_for_job", "generate_cover_letter", "generate_portfolio",
     "generate_word_file", "generate_pdf_file", "generate_portfolio_website"}

\* C10: a submission whose resume text is not blank calls the classifier
\* exactly once, on the vectorizer's result for the cleaned resume text, and
\* before every generator and exporter call, also when the cleaned text is
\* empty.
ClassifiedOnceBeforeSynthesis ==
    (Submitted /\ ~AllWhitespace(resume_text)) =>
        /\ Cardinality(Called("model.predict")) = 1
        /\ \A p \in Called("model.predict") :
              /\ calls[p].args = <<tfidf_transform(<<clean_text(resume_text)>>)>>
              /\ \A i \in 1..Len(calls) : calls[i].fn \in Synthesis => p < i

\* a resume text of punctuation only, cleaned to the empty text, was
\* classified and a resume generated
ClassifiedOnceBeforeSynthesisWitness ==
    /\ option = "Generate Resume"
    /\ resume_text = <<"<", "<">>
    /\ Called("model.predict") = {3}
    /\ calls[3].args = <<tfidf_transform(<< <<>> >>)>>
    /\ Called("customize_for_job") = {4}

============================================================================
